---- MODULE Spec2Model ----
(***************************************************************************)
(* Model of the moneybotsapi logging subsystem: the zerolog fan-out logger *)
(* built by InitLogger (console, daily file, logs table), the DBWriter     *)
(* sink, the daily rotation goroutine, the bun query hook (DBLogger) and   *)
(* the startup sequence of main.                                           *)
(*                                                                         *)
(* Three specifications share the module:                                  *)
(*   Spec       main + ConnectPostgres + InitLogger + request handlers +   *)
(*              rotateLogDaily, under a wall clock with a zone offset      *)
(*   SpecHook   DBLogger.AfterQuery applied to bounded observed calls      *)
(*   SpecWrite  DBWriter.Write applied to bounded event buffers            *)
(***************************************************************************)
EXTENDS Integers, Sequences, FiniteSets, TLC

VARIABLES
    pc,         \* position of main: load, connect, initlogger, started, ...
    startup,    \* ghost: the startup steps run so far, each with its outcome
    cfg,        \* the configuration loaded by config.Get
    handler,    \* the request-logging middleware: idle, event while the
                \* event of the request is built, next while the route
                \* handler runs
    held,       \* the logger value the event being built is bound to
    zone,       \* change of the local zone offset (hours) at TransitionAt
    clock,      \* wall clock, hours since local midnight of day 0
    logLevel,   \* DBLogger.logLevel of the installed query hook
    Logger,     \* log.Logger, the process-wide handle: [w, rest] generations
    loggers,    \* loggers built so far: generation -> date of its log file
    rotPc,      \* rotateLogDaily: off, sleep, store
    wake,       \* instant the rotation goroutine's Sleep returns
    rotNew,     \* generation being stored by rotateLogDaily
    rotStored,  \* fields of log.Logger already overwritten by the store
    tries,      \* wake-ups of rotateLogDaily on local day tries.day
    replaced,   \* replacements of log.Logger: <<by, local day>> in order
    emitted,    \* ghost: one record per log call, in order
    console,    \* os.Stdout as written by the console sink
    files,      \* log files: date -> buffers appended
    logs,       \* the logs table: rows in insertion order
    stderr,     \* os.Stderr lines
    faults,     \* the sinks whose writes fail in this run
    requests,   \* HTTP requests handled so far
    hook,       \* SpecHook: the observed call and what AfterQuery emitted
    wr,         \* SpecWrite: the buffer and what DBWriter.Write returned
    hostname,   \* os.Hostname()
    dotenv,     \* the .env file: variable -> value, "" for one it lacks
    env         \* the process environment: variable -> value, "" if unset

vars == <<pc, startup, cfg, handler, held, zone, clock, logLevel, Logger, loggers, rotPc,
          wake, rotNew, rotStored, tries, replaced, emitted, console, files,
          logs, stderr, faults, requests, hook, wr, hostname, dotenv, env>>

mainVars == <<pc, startup, cfg, handler, held, requests, logLevel>>
timeVars == <<zone, clock>>
rotVars == <<rotPc, wake, rotNew, rotStored, tries>>
logVars == <<Logger, loggers, replaced>>
sinkVars == <<console, files, logs, stderr, emitted>>
auxVars == <<hook, wr>>
envVars == <<hostname, dotenv, env>>

----------------------------------------------------------------------------
(* Bounds of the model *)

MaxClock == 50
TickLen == 24
StartHour == 22
MaxRequests == 1
MaxFaultySinks == 2
MaxRotPerDay == 2
MaxNest == 2

----------------------------------------------------------------------------
(* Text: Go strings are sequences of one-character strings *)

LowerCase == <<"a", "b", "c", "d", "e", "f", "g", "h", "i", "j", "k", "l", "m",
               "n", "o", "p", "q", "r", "s", "t", "u", "v", "w", "x", "y", "z">>
UpperCase == <<"A", "B", "C", "D", "E", "F", "G", "H", "I", "J", "K", "L", "M",
               "N", "O", "P", "Q", "R", "S", "T", "U", "V", "W", "X", "Y", "Z">>

WhiteSpace == {" ", "\t", "\n"}

ToUpperChar(c) ==
    IF \E i \in 1..26 : LowerCase[i] = c
    THEN UpperCase[CHOOSE i \in 1..26 : LowerCase[i] = c]
    ELSE c

ToLowerChar(c) ==
    IF \E i \in 1..26 : UpperCase[i] = c
    THEN LowerCase[CHOOSE i \in 1..26 : UpperCase[i] = c]
    ELSE c

ToUpper(s) == [i \in 1..Len(s) |-> ToUpperChar(s[i])]
ToLower(s) == [i \in 1..Len(s) |-> ToLowerChar(s[i])]

RECURSIVE TrimLeft(_)
TrimLeft(s) ==
    IF s # <<>> /\ Head(s) \in WhiteSpace THEN TrimLeft(Tail(s)) ELSE s

RECURSIVE TrimRight(_)
TrimRight(s) ==
    IF s # <<>> /\ s[Len(s)] \in WhiteSpace
    THEN TrimRight(SubSeq(s, 1, Len(s) - 1))
    ELSE s

TrimSpace(s) == TrimRight(TrimLeft(s))

HasPrefix(s, p) == Len(s) >= Len(p) /\ SubSeq(s, 1, Len(p)) = p

Contains(s, sub) ==
    \E i \in 1..(Len(s) - Len(sub) + 1) : SubSeq(s, i, i + Len(sub) - 1) = sub

----------------------------------------------------------------------------
(* JSON values of a zerolog event.  Every value is a record of the same    *)
(* shape: t is the JSON type, s holds a string and hi, lo the non-negative *)
(* integer hi * 2^30 + lo.                                                 *)

Two30 == 2^30
Two23 == 2^23

StrV(x) == [t |-> "string", s |-> x, hi |-> 0, lo |-> 0]
NumV(h, l) == [t |-> "number", s |-> "", hi |-> h, lo |-> l]
BoolV(b) == [t |-> "bool", s |-> IF b THEN "true" ELSE "false", hi |-> 0, lo |-> 0]
NullV == [t |-> "null", s |-> "", hi |-> 0, lo |-> 0]

(* The string made of the characters cs *)
RECURSIVE Flatten(_)
Flatten(cs) == IF cs = <<>> THEN "" ELSE Head(cs) \o Flatten(Tail(cs))

(* A document without fields, and the update of one field of a document *)
EmptyDoc == [k \in {} |-> NullV]
With(doc, k, v) ==
    [x \in DOMAIN doc \cup {k} |-> IF x = k THEN v ELSE doc[x]]
Without(doc, k) == [x \in DOMAIN doc \ {k} |-> doc[x]]

----------------------------------------------------------------------------
(* The query hook: DBLogger *)

LogLevelDebug == <<"d", "e", "b", "u", "g">>
LogLevelInfo == <<"i", "n", "f", "o">>
LogLevelError == <<"e", "r", "r", "o", "r">>

NewDBLogger(level) == ToLower(level)

(* The substring that marks an operation on the log table *)
LogsToken == <<"\"", "l", "o", "g", "s", "\"">>

Operations ==
    << <<"S", "E", "L", "E", "C", "T">>, <<"I", "N", "S", "E", "R", "T">>,
       <<"U", "P", "D", "A", "T", "E">>, <<"D", "E", "L", "E", "T", "E">>,
       <<"C", "R", "E", "A", "T", "E">>, <<"A", "L", "T", "E", "R">>,
       <<"D", "R", "O", "P">>, <<"S", "E", "T">> >>
OperationNames ==
    <<"SELECT", "INSERT", "UPDATE", "DELETE", "CREATE", "ALTER", "DROP", "SET">>

getOperationType(query) ==
    LET q == TrimSpace(ToUpper(query))
        hits == {i \in 1..Len(Operations) : HasPrefix(q, Operations[i])}
    IN  IF hits = {} THEN "UNKNOWN"
        ELSE OperationNames[CHOOSE i \in hits : \A j \in hits : i <= j]

isSchemaOperation(operation) == operation \in {"CREATE", "ALTER", "DROP"}

(* Index of the first double quote of s, 0 when it has none *)
FirstQuote(s) ==
    IF \E j \in 1..Len(s) : s[j] = "\""
    THEN CHOOSE j \in 1..Len(s) : s[j] = "\"" /\ \A k \in 1..(j - 1) : s[k] # "\""
    ELSE 0

(* regexp `\"([^\"]+)\"` replaced by "$1", leftmost match first *)
RECURSIVE StripQuoted(_)
StripQuoted(s) ==
    IF s = <<>> THEN <<>>
    ELSE IF Head(s) = "\"" /\ FirstQuote(Tail(s)) >= 2
    THEN LET j == FirstQuote(Tail(s))
         IN  SubSeq(Tail(s), 1, j - 1)
                 \o StripQuoted(SubSeq(Tail(s), j + 1, Len(Tail(s))))
    ELSE <<Head(s)>> \o StripQuoted(Tail(s))

(* Length of the leading run of non-space characters *)
RECURSIVE WordLen(_)
WordLen(s) ==
    IF s = <<>> \/ Head(s) \in WhiteSpace THEN 0 ELSE 1 + WordLen(Tail(s))

RECURSIVE Fields(_)
Fields(s) ==
    LET t == TrimLeft(s)
    IN  IF t = <<>> THEN <<>>
        ELSE <<SubSeq(t, 1, WordLen(t))>>
                 \o Fields(SubSeq(t, WordLen(t) + 1, Len(t)))

RECURSIVE Join(_, _)
Join(ws, sep) ==
    IF ws = <<>> THEN <<>>
    ELSE IF Len(ws) = 1 THEN ws[1]
    ELSE ws[1] \o sep \o Join(Tail(ws), sep)

cleanQueryString(query) == Join(Fields(StripQuoted(query)), <<" ">>)

(* time.Since(event.StartTime).Milliseconds(): whole milliseconds of an    *)
(* elapsed time given in microseconds                                      *)
Milliseconds(durUs) == durUs \div 1000

SlowQueryMs == 100

(* What the hook hands to the process-wide logger for one observed call:   *)
(* the events in the order of its log calls, the first one as doc          *)
Emit(entries) ==
    [emit |-> entries # <<>>,
     doc |-> IF entries = <<>> THEN EmptyDoc ELSE entries[1],
     entries |-> entries]

NoEmit == Emit(<<>>)

(* AfterQuery for a call it does not skip: the error branch, which         *)
(* returns, then the switch on the configured level                        *)
LogQuery(query, durUs, failed, level) ==
      LET duration == Milliseconds(durUs)
          operation == getOperationType(query)
          cleanQuery == cleanQueryString(query)
          base == [module |-> StrV("database"),
                   operation |-> StrV(operation),
                   duration_ms |-> NumV(0, duration)]
      IN  IF failed
          THEN Emit(<<With(With(With(With(base,
                            "level", StrV("error")),
                            "query", StrV(Flatten(cleanQuery))),
                            "error", StrV("query failed")),
                            "message", StrV("Database query error"))>>)
          ELSE IF level = LogLevelDebug
          THEN Emit(<<With(With(With(base,
                            "level", StrV("debug")),
                            "query", StrV(Flatten(cleanQuery))),
                            "message", StrV("Database query executed"))>>)
          ELSE IF level = LogLevelInfo
                  /\ (isSchemaOperation(operation) \/ duration > SlowQueryMs)
          THEN Emit(<<With(With(base,
                            "level", StrV("info")),
                            "message", StrV("Database query completed"))>>)
          ELSE NoEmit

(* A hook that honours the configured level for failed calls too: below    *)
(* error nothing is logged                                                 *)
AfterQueryQuiet(query, durUs, failed, level) ==
    IF Contains(query, LogsToken) THEN NoEmit
    ELSE IF failed /\ level \notin {LogLevelDebug, LogLevelInfo, LogLevelError}
    THEN NoEmit
    ELSE LogQuery(query, durUs, failed, level)

(* AfterQuery without its first statement *)
AfterQueryNoSkip(query, durUs, failed, level) ==
    LogQuery(query, durUs, failed, level)

(* AfterQuery: operations on the log table are skipped *)
AfterQuery(query, durUs, failed, level) ==
    IF Contains(query, LogsToken) THEN NoEmit
    ELSE LogQuery(query, durUs, failed, level)

(* Statements the application issues *)
QCreateSchema == <<"C", "R", "E", "A", "T", "E", " ", "S", "C", "H", "E", "M", "A", " ", "I", "F", " ", "N", "O", "T", " ", "E", "X", "I", "S", "T", "S", " ", "a", "p", "i">>
QSetSearchPath == <<"S", "E", "T", " ", "s", "e", "a", "r", "c", "h", "_", "p", "a", "t", "h", " ", "T", "O", " ", "a", "p", "i", ",", "p", "u", "b", "l", "i", "c">>
QCreateAuth == <<"C", "R", "E", "A", "T", "E", " ", "T", "A", "B", "L", "E", " ", "I", "F", " ", "N", "O", "T", " ", "E", "X", "I", "S", "T", "S", " ", "a", "p", "i", ".", "a", "u", "t", "h">>
QCreateLogs == <<"C", "R", "E", "A", "T", "E", " ", "T", "A", "B", "L", "E", " ", "I", "F", " ", "N", "O", "T", " ", "E", "X", "I", "S", "T", "S", " ", "\"", "l", "o", "g", "s", "\"">>
QCreateIndex == <<"C", "R", "E", "A", "T", "E", " ", "I", "N", "D", "E", "X", " ", "I", "F", " ", "N", "O", "T", " ", "E", "X", "I", "S", "T", "S", " ", "\"", "i", "d", "x", "\"", " ", "O", "N", " ", "\"", "l", "o", "g", "s", "\"">>
QInsertLogs == <<"I", "N", "S", "E", "R", "T", " ", "I", "N", "T", "O", " ", "\"", "l", "o", "g", "s", "\"", " ", "A", "S", " ", "\"", "l", "\"">>

----------------------------------------------------------------------------
(* The persistent sink: DBWriter.Write *)

(* float64 of a non-negative integer, as json.Unmarshal stores a number in *)
(* an interface{}: 53 bits of mantissa, round to nearest, ties to even     *)
RECURSIVE Spacing(_)
Spacing(hi) == IF hi < Two23 THEN 1 ELSE 2 * Spacing(hi \div 2)

Float64(v) ==
    LET sp == Spacing(v.hi)
        a == v.lo \div sp
        r == v.lo % sp
        up == (2 * r > sp) \/ (2 * r = sp /\ a % 2 = 1)
        l2 == (IF up THEN a + 1 ELSE a) * sp
    IN  IF l2 = Two30 THEN NumV(v.hi + 1, 0) ELSE NumV(v.hi, l2)

(* json.Unmarshal(p, &event) of a parseable buffer's document *)
Unmarshal(doc) ==
    [k \in DOMAIN doc |-> IF doc[k].t = "number" THEN Float64(doc[k]) ELSE doc[k]]

(* fmt.Sprintf("%v", x) of a float64 holding an integer *)
FormatFloat(v) ==
    IF v.hi = 0 /\ v.lo < 1000000 THEN ToString(v.lo)
    ELSE IF v.hi = Two23 /\ v.lo = 0 THEN "9.007199254740992e+15"
    ELSE ToString(v.hi) \o "*2^30+" \o ToString(v.lo)

(* A coercion that stores no text for a field that is missing or null *)
SprintvEmpty(event, k) ==
    IF k \notin DOMAIN event \/ event[k].t = "null" THEN ""
    ELSE IF event[k].t = "number" THEN FormatFloat(event[k])
    ELSE event[k].s

(* fmt.Sprintf("%v", event[k]): a missing key reads as nil *)
Sprintv(event, k) ==
    IF k \notin DOMAIN event THEN "<nil>"
    ELSE CASE event[k].t = "null" -> "<nil>"
           [] event[k].t = "number" -> FormatFloat(event[k])
           [] OTHER -> event[k].s

(* m, ok := event["module"].(string) *)
ModuleOf(event) ==
    IF "module" \in DOMAIN event /\ event["module"].t = "string"
    THEN event["module"].s
    ELSE ""

(* json.Marshal(event): a float64 holding an integer below 1e21 is printed  *)
(* with all its digits, every other value as it was read                   *)
Marshal(event) ==
    [k \in DOMAIN event |->
        IF event[k].t = "number" THEN NumV(event[k].hi, event[k].lo) ELSE event[k]]

(* The zero time.Time of an APILog that was never filled in *)
NoTime == -1
NoRow == [ev |-> 0, timestamp |-> NoTime, level |-> "", message |-> "",
          module |-> "", data |-> EmptyDoc]

(* The APILog entry Write builds from the parsed event *)
LogEntry(p, now) ==
    LET event == Unmarshal(p.doc)
    IN  [ev |-> p.id,
         timestamp |-> now,
         level |-> Sprintv(event, "level"),
         message |-> Sprintv(event, "message"),
         module |-> ModuleOf(event),
         data |-> Marshal(Without(event, "time"))]

StderrInsertFailed == "Failed to write log to database"

(* A Write that goes on after a failed json.Unmarshal, with the empty map  *)
DBWriteUnchecked(p, now, insertFails) ==
    IF insertFails
    THEN [n |-> 0, err |-> "insert", row |-> LogEntry(p, now),
          attempted |-> TRUE, stored |-> FALSE,
          stderr |-> <<StderrInsertFailed>>]
    ELSE [n |-> p.size, err |-> "nil", row |-> LogEntry(p, now),
          attempted |-> TRUE, stored |-> TRUE, stderr |-> <<>>]

(* Write(p): n and err as returned, the row handed to the insert, whether  *)
(* the insert was attempted and stored, and the line printed to stderr.    *)
DBWrite(p, now, insertFails) ==
    IF ~p.valid
    THEN [n |-> 0, err |-> "parse", row |-> NoRow, attempted |-> FALSE,
          stored |-> FALSE, stderr |-> <<>>]
    ELSE IF insertFails
    THEN [n |-> 0, err |-> "insert", row |-> LogEntry(p, now),
          attempted |-> TRUE, stored |-> FALSE,
          stderr |-> <<StderrInsertFailed>>]
    ELSE [n |-> p.size, err |-> "nil", row |-> LogEntry(p, now),
          attempted |-> TRUE, stored |-> TRUE, stderr |-> <<>>]

(* A buffer as zerolog hands it to the writers: id is a ghost identity,    *)
(* size stands for len(p).                                                 *)
Buffer(id, doc) ==
    [valid |-> TRUE, id |-> id, size |-> 1 + Cardinality(DOMAIN doc), doc |-> doc]
Garbage(id) == [valid |-> FALSE, id |-> id, size |-> 1, doc |-> EmptyDoc]

(* Write of the variant built on gorm (internal/utils/logger/logger.go):   *)
(* the same but for Data, which is string(p), the buffer as received       *)
DBWriteGorm(p, now, insertFails) ==
    LET r == DBWrite(p, now, insertFails)
    IN  IF r.attempted THEN [r EXCEPT !.row.data = p.doc] ELSE r

----------------------------------------------------------------------------
(* Wall clock and local zone.  The clock counts hours; the zone's offset   *)
(* from its initial value changes by `zone` hours at TransitionAt (02:00   *)
(* local time of day 1): -1 makes day 1 last 25 hours, +1 makes it 23.     *)

Day == 24
TransitionAt == 26
ZoneChanges == {-1, 0, 1}

Max(a, b) == IF a >= b THEN a ELSE b
Min(a, b) == IF a <= b THEN a ELSE b

Offset(t) == IF t >= TransitionAt THEN zone ELSE 0

(* The local calendar date of instant t: t.Year(), t.Month(), t.Day() *)
LocalDay(t) == (t + Offset(t)) \div Day

(* time.Date(y, m, d, 0, 0, 0, 0, loc): the instant of 00:00 local on d *)
MidnightOf(d) == IF d * Day < TransitionAt THEN d * Day ELSE d * Day - zone

(* rotateLogDaily: next := now.Add(24h) cut to its date; next.Sub(now) *)
SleepDuration(now) == MidnightOf(LocalDay(now + Day)) - now

(* time.Sleep(d) returns at once when d <= 0 *)
WakeAt(now) == now + Max(SleepDuration(now), 0)

(* getDailyLogFile: the file is named by the local date of time.Now() *)
DailyLogFile(now) == LocalDay(now)

MaxDay == (MaxClock + 1) \div Day + 1

----------------------------------------------------------------------------
(* The fan-out writer and a log call *)

SinkOrder == <<"console", "file", "db">>
Sinks == {"console", "file", "db"}

(* A fan-out that stops at the first writer that fails *)
MultiWriterCallsFailFast(F) ==
    {SinkOrder[i] : i \in {j \in 1..3 : \A k \in 1..(j - 1) : SinkOrder[k] \notin F}}

(* A fan-out that returns the error of the last writer that failed *)
MultiWriterErrLast(F, dbErr) ==
    IF dbErr # "nil" THEN dbErr
    ELSE IF "file" \in F THEN "file"
    ELSE IF "console" \in F THEN "console"
    ELSE "nil"

(* zerolog.MultiLevelWriter(consoleWriter, logFile, dbWriter).WriteLevel:  *)
(* every writer is called in order; the first error is the one returned.   *)
MultiWriterCalls(F) == Sinks

MultiWriterErr(F, dbErr) ==
    IF "console" \in F THEN "console"
    ELSE IF "file" \in F THEN "file"
    ELSE dbErr

(* Event.Msg has no result: a write error goes to zerolog's error handler, *)
(* which prints it, and the call site gets nothing back.                   *)
MsgResult(werr) == "void"

(* Elapsed times of the observed calls, in microseconds *)
FastUs == 2000
SlowUs == 250000

Line(kind, id) == [kind |-> kind, id |-> id]

AppendIf(cond, seq, x) == IF cond THEN Append(seq, x) ELSE seq

(* A rotation that closes the file of the logger it replaces *)
ClosedByRotation(g) == g = Len(loggers)

(* The file of the logger of generation g is open: getDailyLogFile opens   *)
(* it and nothing ever closes it                                           *)
StillOpen(g) == TRUE

(* One log call, S being the sinks' state: log.<Level>() has bound the     *)
(* event to the logger value L, and Msg(...) writes it.  F is the set of   *)
(* sinks whose write fails.                                                *)
RECURSIVE LogCallWith(_, _, _, _, _, _)
RECURSIVE LogCall(_, _, _, _, _)
LogCallWith(S, L, src, doc, F, depth) ==
    LET id == Len(S.emitted) + 1
        g == L.w
        buf == Buffer(id, With(doc, "time", StrV(ToString(clock))))
        rec == [id |-> id, src |-> src, day |-> LocalDay(clock), via |-> g,
                current |-> Logger.w,
                torn |-> L.w # L.rest, failing |-> F,
                dbN |-> 0, dbErr |-> "nil", werr |-> "nil",
                attempts |-> 0, nested |-> 0, site |-> MsgResult("nil")]
        called == MultiWriterCalls(F)
        r == IF "db" \in called
             THEN DBWrite(buf, clock, "db" \in F)
             ELSE [n |-> 0, err |-> "nil", row |-> NoRow,
                   attempted |-> FALSE, stored |-> FALSE, stderr |-> <<>>]
        h == IF r.attempted
             THEN AfterQuery(QInsertLogs, SlowUs, ~r.stored, logLevel)
             ELSE NoEmit
        werr == MultiWriterErr(F, r.err)
        \* console, file, and the insert of the persistent sink
        Pre == [S EXCEPT
                  !.emitted = Append(@, rec),
                  !.console = AppendIf("console" \in called \ F, @, buf),
                  !.files[loggers[g].date] =
                      AppendIf("file" \in called \ F /\ StillOpen(g), @, buf),
                  !.logs = AppendIf(r.stored, @, r.row)]
        \* the hook runs inside the insert, before Write returns
        Mid == IF h.emit /\ depth < MaxNest
               THEN LogCall(Pre, "hook", h.doc, F, depth + 1)
               ELSE Pre
    IN  IF g = 0
        THEN \* the default logger of zerolog/log writes to os.Stderr only
             [S EXCEPT !.emitted = Append(@, rec),
                       !.stderr = Append(@, Line("event", id))]
        ELSE [Mid EXCEPT
                !.stderr = AppendIf(werr # "nil",
                               AppendIf(r.stderr # <<>>, @, Line("dbwriter", id)),
                               Line("zerolog", id)),
                !.emitted[id] =
                  [@ EXCEPT !.dbN = r.n, !.dbErr = r.err, !.werr = werr,
                            !.attempts = IF r.attempted THEN 1 ELSE 0,
                            !.nested = IF h.emit THEN 1 ELSE 0,
                            !.site = MsgResult(werr)]]

(* A log call on the process-wide logger as it is now *)
LogCall(S, src, doc, F, depth) == LogCallWith(S, Logger, src, doc, F, depth)

(* A database call of the application as the hook observes it *)
Observe(S, query, durUs, failed, F) ==
    LET h == AfterQuery(query, durUs, failed, logLevel)
    IN  IF h.emit THEN LogCall(S, "hook", h.doc, F, 0) ELSE S

(* Statements executed one after the other until one fails (the n-th when  *)
(* n > 0), each observed by the hook                                       *)
RECURSIVE ObserveAll(_, _, _, _)
ObserveAll(S, queries, i, n) ==
    IF i > Len(queries) \/ (n > 0 /\ i > n) THEN S
    ELSE ObserveAll(Observe(S, queries[i], FastUs, i = n, {}), queries, i + 1, n)

Sinks0 == [console |-> console, files |-> files, logs |-> logs,
           stderr |-> stderr, emitted |-> emitted]

SetSinks(S) ==
    /\ console' = S.console
    /\ files' = S.files
    /\ logs' = S.logs
    /\ stderr' = S.stderr
    /\ emitted' = S.emitted

(* The sinks whose writes fail in a run (stdout closed, disk full, inserts *)
(* refused): at most MaxFaultySinks of the three                           *)
FaultSets == {F \in SUBSET Sinks : Cardinality(F) <= MaxFaultySinks}

----------------------------------------------------------------------------
(* main: config.Get, ConnectPostgres, InitLogger, the startup log calls    *)
(* and startServer                                                         *)

LevelConfigs == { <<"I", "N", "F", "O">> }
NoCfg == [PostgresLogLevel |-> <<>>, ServerEnv |-> ""]

(* The environment variables the model follows *)
EnvKeys == {"MB_API_SERVER_ENV", "MB_API_ENV"}
Unset == [k \in EnvKeys |-> ""]

(* os.Setenv(k, v) *)
Setenv(e, k, v) == [e EXCEPT ![k] = v]

(* godotenv.Load: a variable of the file is set unless the environment     *)
(* already has it                                                          *)
LoadEnvFile(e, file) ==
    [k \in EnvKeys |-> IF e[k] # "" THEN e[k] ELSE file[k]]

(* loadConfig up to loadFromEnv: the environment it leaves *)
loadConfig(host, e, file) ==
    LoadEnvFile(Setenv(e, "MB_API_SERVER_ENV",
                    IF host = "moneybots-app" THEN "production" ELSE "development"),
                file)

getLogDirectory(e) ==
    IF e["MB_API_ENV"] = "production" THEN "/var/log/moneybotsapi" ELSE "_logs"

Doc(level, module, message) ==
    [level |-> StrV(level), module |-> StrV(module), message |-> StrV(message)]

ConnectedDoc == Doc("info", "database", "Connected to PostgreSQL")
StartedDoc ==
    With(With(With(Doc("info", "main", "moneybotsapi started"),
        "version", StrV("v1")), "environment", StrV("development")),
        "extra_key", StrV("extra_value"))
ServerLogDoc == With(Doc("info", "main", "Starting HTTP server"), "port", StrV("3007"))
ServerFailedDoc ==
    With(Doc("error", "main", "Server failed to start"), "error", StrV("listen"))
ApiRequestDoc ==
    With(With(With(Doc("info", "http", "API request"),
        "method", StrV("GET")), "path", StrV("/")), "remote_ip", StrV("::1"))
RequestErrorDoc ==
    With(With(With(With(Doc("error", "http", "Request error"),
        "method", StrV("GET")), "path", StrV("/")), "error", StrV("not found")),
        "latency", NumV(0, 3))
RotateFailedDoc ==
    [level |-> StrV("error"), error |-> StrV("open"),
     message |-> StrV("Failed to rotate log file")]

Alive == pc \notin {"panic", "exit", "idle"}

(* A startup step that leaves its error to main, which continues *)
AfterStepIgnoringError(next, failed) == next

(* if err != nil { panic(...) }: where main goes after a startup step *)
AfterStep(next, failed) == IF failed THEN "panic" ELSE next

Outcome(step, failed) == [step |-> step, ok |-> ~failed]

(* cfg, err := config.Get(); a failure panics *)
LoadConfig ==
    /\ pc = "load"
    /\ \E ok \in BOOLEAN :
         /\ env' = loadConfig(hostname, env, dotenv)
         /\ IF ok
            THEN \E l \in LevelConfigs :
                    cfg' = [PostgresLogLevel |-> l,
                            ServerEnv |-> env'["MB_API_SERVER_ENV"]]
            ELSE cfg' = cfg
         /\ pc' = AfterStep("connect", ~ok)
         /\ startup' = Append(startup, Outcome("config", ~ok))
    /\ UNCHANGED <<handler, held, requests, logLevel, faults>>
    /\ UNCHANGED <<timeVars, rotVars, logVars, sinkVars, auxVars, hostname, dotenv>>

(* ConnectPostgres up to the log call after the ping *)
Connect ==
    /\ pc = "connect"
    /\ logLevel' = NewDBLogger(cfg.PostgresLogLevel)
    /\ \E ok \in BOOLEAN :
         /\ IF ok
            THEN SetSinks(LogCall(Sinks0, "connect", ConnectedDoc, {}, 0))
            ELSE UNCHANGED sinkVars
         /\ pc' = AfterStep("schema", ~ok)
         /\ startup' = Append(startup, Outcome("ping", ~ok))
    /\ UNCHANGED <<cfg, handler, held, requests, faults>>
    /\ UNCHANGED <<timeVars, rotVars, logVars, auxVars, envVars>>

(* createSchema and runMigrations: three statements, each observed by the  *)
(* hook; a failing one ends ConnectPostgres and main panics.               *)
StartupQuery ==
    [schema |-> QCreateSchema, searchpath |-> QSetSearchPath, migrate |-> QCreateAuth]
StartupNext ==
    [schema |-> "searchpath", searchpath |-> "migrate", migrate |-> "initlogger"]

StartupExec ==
    /\ pc \in DOMAIN StartupQuery
    /\ \E failed \in BOOLEAN, durUs \in {FastUs, SlowUs} :
         /\ SetSinks(Observe(Sinks0, StartupQuery[pc], durUs, failed, {}))
         /\ pc' = AfterStep(StartupNext[pc], failed)
         /\ startup' = Append(startup, Outcome(pc, failed))
    /\ UNCHANGED <<cfg, handler, held, requests, logLevel, faults>>
    /\ UNCHANGED <<timeVars, rotVars, logVars, auxVars, envVars>>

(* InitLogger: the logs table and its two indexes, the log file, the       *)
(* fan-out logger, the assignment of log.Logger, and go rotateLogDaily,    *)
(* which computes its first sleep.                                         *)
InitLoggerDDL == <<QCreateLogs, QCreateIndex, QCreateIndex>>
InitLoggerSteps == <<"logstable", "index_timestamp", "index_module", "logfile">>

InitLogger ==
    /\ pc = "initlogger"
    /\ \E fail \in 0..4 :
         \* fail: 0 none, 1..3 the failing statement, 4 the log file
         /\ SetSinks(ObserveAll(Sinks0, InitLoggerDDL, 1, IF fail = 4 THEN 0 ELSE fail))
         /\ IF fail = 0
            THEN /\ loggers' = Append(loggers, [date |-> DailyLogFile(clock),
                                           dir |-> getLogDirectory(env)])
                 /\ Logger' = [w |-> Len(loggers) + 1, rest |-> Len(loggers) + 1]
                 /\ replaced' = Append(replaced,
                        [by |-> "InitLogger", day |-> LocalDay(clock)])
                 /\ rotPc' = "sleep"
                 /\ wake' = WakeAt(clock)
            ELSE UNCHANGED <<logVars, rotPc, wake>>
         /\ pc' = AfterStep("started", fail # 0)
         /\ startup' = startup \o
                [i \in 1..(IF fail = 0 THEN 4 ELSE fail) |->
                    Outcome(InitLoggerSteps[i], i = fail)]
    /\ UNCHANGED <<cfg, handler, held, requests, logLevel, faults>>
    /\ UNCHANGED <<timeVars, rotNew, rotStored, tries, auxVars, envVars>>

(* The two log calls of main after InitLogger *)
MainLog ==
    /\ pc \in {"started", "serverlog"}
    /\ SetSinks(LogCall(Sinks0, "main",
           IF pc = "started" THEN StartedDoc ELSE ServerLogDoc, faults, 0))
    /\ faults' = faults
    /\ pc' = IF pc = "started" THEN "serverlog" ELSE "listen"
    /\ UNCHANGED <<startup, cfg, handler, held, requests, logLevel>>
    /\ UNCHANGED <<timeVars, rotVars, logVars, auxVars, envVars>>

(* startServer: e.Start serves, or fails and main logs and exits.  The     *)
(* port is never empty here (loadFromEnv requires it), so the warning of   *)
(* startServer is not reached.                                             *)
StartServer ==
    /\ pc = "listen"
    /\ \E ok \in BOOLEAN :
         IF ok
         THEN pc' = "serving" /\ UNCHANGED <<sinkVars, faults>>
         ELSE /\ pc' = "exit"
              /\ SetSinks(LogCall(Sinks0, "main", ServerFailedDoc, faults, 0))
              /\ faults' = faults
    /\ UNCHANGED <<startup, cfg, handler, held, requests, logLevel>>
    /\ UNCHANGED <<timeVars, rotVars, logVars, auxVars, envVars>>

(* The request-logging middleware: log.Info() reads log.Logger and binds   *)
(* the new event to its writer                                             *)
Request ==
    /\ pc = "serving"
    /\ handler = "idle"
    /\ requests < MaxRequests
    /\ handler' = "event"
    /\ held' = Logger
    /\ requests' = requests + 1
    /\ UNCHANGED <<startup, pc, cfg, logLevel, faults>>
    /\ UNCHANGED <<timeVars, rotVars, logVars, sinkVars, auxVars, envVars>>

(* ... the fields are added and Msg("API request") writes the event        *)
(* through the writer it was bound to; then next(c)                        *)
RequestMsg ==
    /\ pc = "serving"
    /\ handler = "event"
    /\ SetSinks(LogCallWith(Sinks0, held, "http", ApiRequestDoc, faults, 0))
    /\ handler' = "next"
    /\ held' = [w |-> 0, rest |-> 0]
    /\ UNCHANGED <<startup, pc, cfg, requests, logLevel, faults>>
    /\ UNCHANGED <<timeVars, rotVars, logVars, auxVars, envVars>>

(* ... and after it: an error of the route handler is logged *)
RequestDone ==
    /\ pc = "serving"
    /\ handler = "next"
    /\ \E failed \in BOOLEAN :
         IF failed
         THEN /\ SetSinks(LogCall(Sinks0, "http", RequestErrorDoc, faults, 0))
              /\ faults' = faults
         ELSE UNCHANGED <<sinkVars, faults>>
    /\ handler' = "idle"
    /\ UNCHANGED <<startup, pc, cfg, held, requests, logLevel>>
    /\ UNCHANGED <<timeVars, rotVars, logVars, auxVars, envVars>>

----------------------------------------------------------------------------
(* rotateLogDaily, the goroutine started by InitLogger *)

TriesToday ==
    IF tries.day = LocalDay(clock) THEN tries.n ELSE 0

(* Sleep has returned: getDailyLogFile, and either the error is logged     *)
(* through log.Logger and the loop continues (now, next, duration, Sleep), *)
(* or the new logger is built.                                             *)
RotateWake ==
    /\ Alive
    /\ rotPc = "sleep"
    /\ clock >= wake
    /\ TriesToday < MaxRotPerDay
    /\ tries' = [day |-> LocalDay(clock), n |-> TriesToday + 1]
    /\ \E ok \in BOOLEAN :
         IF ok
         THEN /\ loggers' = Append(loggers, [date |-> DailyLogFile(clock),
                                           dir |-> getLogDirectory(env)])
              /\ rotNew' = Len(loggers) + 1
              /\ rotStored' = {}
              /\ rotPc' = "store"
              /\ UNCHANGED <<sinkVars, faults, wake>>
         ELSE /\ SetSinks(LogCall(Sinks0, "rotate", RotateFailedDoc, faults, 0))
              /\ faults' = faults
              /\ rotPc' = "sleep"
              /\ wake' = WakeAt(clock)
              /\ UNCHANGED <<loggers, rotNew, rotStored>>
    /\ UNCHANGED <<Logger, replaced>>
    /\ UNCHANGED <<mainVars, timeVars, auxVars, envVars>>

(* log.Logger = logger: a plain assignment of a struct of several words,   *)
(* unsynchronised with the readers; the words are stored one by one, in    *)
(* either order.                                                           *)
RotateStore ==
    /\ Alive
    /\ rotPc = "store"
    /\ \E f \in {"w", "rest"} \ rotStored :
         /\ Logger' = [Logger EXCEPT ![f] = rotNew]
         /\ rotStored' = rotStored \cup {f}
         /\ IF rotStored' = {"w", "rest"}
            THEN /\ rotPc' = "sleep"
                 /\ wake' = WakeAt(clock)
                 /\ replaced' = Append(replaced,
                        [by |-> "rotateLogDaily", day |-> LocalDay(clock)])
            ELSE UNCHANGED <<rotPc, wake, replaced>>
    /\ UNCHANGED <<loggers, rotNew, tries, faults>>
    /\ UNCHANGED <<mainVars, timeVars, sinkVars, auxVars, envVars>>

(* Time passes while the server runs and the rotation goroutine sleeps.    *)
(* The clock stops at the instant the Sleep returns.  A loop that keeps    *)
(* waking at once (a sleep of zero or less) is followed for MaxRotPerDay   *)
(* rounds; then time passes and the Sleep is the one computed at the new   *)
(* instant.                                                                *)
Tick ==
    /\ pc = "serving"
    /\ handler = "idle"
    /\ clock < MaxClock
    /\ rotPc = "sleep"
    /\ wake > clock \/ TriesToday >= MaxRotPerDay
    /\ IF wake > clock
       THEN /\ clock' = Min(Min(clock + TickLen, wake), MaxClock)
            /\ wake' = wake
       ELSE /\ clock' = Min(clock + TickLen, MaxClock)
            /\ wake' = WakeAt(clock')
    /\ UNCHANGED <<zone, rotPc, rotNew, rotStored, tries, faults>>
    /\ UNCHANGED <<mainVars, logVars, sinkVars, auxVars, envVars>>

----------------------------------------------------------------------------
(* The specification of the running process *)

HookIdle == [pc |-> "idle", cfgLevel |-> <<>>, level |-> <<>>, query |-> <<>>,
             durUs |-> 0, failed |-> FALSE, out |-> NoEmit]
WriteIdle == [pc |-> "idle", variant |-> "bun", p |-> Garbage(0), fails |-> FALSE,
              res |-> DBWrite(Garbage(0), 0, FALSE)]

(* The state before main runs (at = "load"), and the state in which the    *)
(* process is not running at all (at = "idle")                             *)
InitProcess(at) ==
    /\ pc = at
    /\ startup = <<>>
    /\ cfg = NoCfg
    /\ handler = "idle"
    /\ held = [w |-> 0, rest |-> 0]
    /\ requests = 0
    /\ logLevel = <<>>
    /\ clock = StartHour
    /\ Logger = [w |-> 0, rest |-> 0]
    /\ loggers = <<>>
    /\ replaced = <<>>
    /\ rotPc = "off"
    /\ wake = 0
    /\ rotNew = 0
    /\ rotStored = {}
    /\ tries = [day |-> 0, n |-> 0]
    /\ emitted = <<>>
    /\ console = <<>>
    /\ files = [d \in 0..MaxDay |-> <<>>]
    /\ logs = <<>>
    /\ stderr = <<>>

(* A production host whose environment and .env file set neither variable *)
InitEnv ==
    /\ hostname = "moneybots-app"
    /\ dotenv = Unset
    /\ env = Unset

Init ==
    /\ InitProcess("load")
    /\ InitEnv
    /\ zone \in ZoneChanges
    /\ faults \in FaultSets
    /\ hook = HookIdle
    /\ wr = WriteIdle

Next ==
    \/ LoadConfig
    \/ Connect
    \/ StartupExec
    \/ InitLogger
    \/ MainLog
    \/ StartServer
    \/ Request
    \/ RequestMsg
    \/ RequestDone
    \/ RotateWake
    \/ RotateStore
    \/ Tick

Spec == Init /\ [][Next]_vars

----------------------------------------------------------------------------
(* Properties of the running process *)

Emissions == {emitted[i] : i \in DOMAIN emitted}

(* Emissions that went through the fan-out logger InitLogger or the        *)
(* rotation installed                                                      *)
FanOut == {e \in Emissions : e.via # 0}

OnConsole(id) == Cardinality({i \in DOMAIN console : console[i].id = id})
OnFile(d, id) == Cardinality({i \in DOMAIN files[d] : files[d][i].id = id})
FilesOf(id) == {d \in DOMAIN files : OnFile(d, id) > 0}
InLogs(id) == Cardinality({i \in DOMAIN logs : logs[i].ev = id})
OnStderr(kind, id) ==
    Cardinality({i \in DOMAIN stderr : stderr[i] = Line(kind, id)})

(* How many times the sink s holds the event id *)
RECURSIVE SumFiles(_, _)
SumFiles(D, id) ==
    IF D = {} THEN 0
    ELSE LET d == CHOOSE x \in D : TRUE
         IN  OnFile(d, id) + SumFiles(D \ {d}, id)

Delivered(s, id) ==
    CASE s = "console" -> OnConsole(id)
      [] s = "file" -> SumFiles(DOMAIN files, id)
      [] s = "db" -> InLogs(id)

(* The first failing sink in the order of the fan-out *)
FirstFailure(F) ==
    IF "console" \in F THEN "console"
    ELSE IF "file" \in F THEN "file"
    ELSE IF "db" \in F THEN "insert"
    ELSE "nil"

C2_OtherSinksStillReceive ==
    \A e \in FanOut :
        \A s \in Sinks \ e.failing : Delivered(s, e.id) = 1

C2_Witness ==
    \E e \in FanOut :
        /\ e.failing = {"console"}
        /\ Delivered("file", e.id) = 1
        /\ Delivered("db", e.id) = 1

(* C3 as stated: every event emitted through the process-wide logger, at   *)
(* any point of the process lifetime, startup included, is delivered       *)
(* exactly once to each of the three sinks (no sink failing).              *)
C3_EveryEventReachesAllSinks ==
    faults = {} =>
        \A e \in Emissions : \A s \in Sinks : Delivered(s, e.id) = 1

(* C4: the insert of the persistent sink, successful or failing, never     *)
(* makes the query hook emit, so an emission causes exactly one insert     *)
(* attempt and the chain emission -> insert -> hook ends there.            *)
C4_LogsInsertNeverLogged ==
    /\ \A e \in FanOut :
          /\ e.attempts = 1
          /\ e.nested = 0
          /\ InLogs(e.id) = (IF "db" \in e.failing THEN 0 ELSE 1)
    /\ \A i \in DOMAIN logs : \E e \in FanOut : e.id = logs[i].ev

C4_Witness ==
    \E e, f \in FanOut :
        /\ e.attempts = 1 /\ e.dbErr = "insert"
        /\ f.id # e.id /\ f.attempts = 1 /\ f.nested = 0

(* C5 as stated: two emissions on different local calendar days go to      *)
(* different files, each to the file named for the date of its emission.   *)
C5_FileNamedForEmissionDate ==
    \A e, f \in FanOut :
        ("file" \notin e.failing /\ "file" \notin f.failing /\ e.day # f.day)
        => /\ FilesOf(e.id) # FilesOf(f.id)
           /\ FilesOf(e.id) = {e.day}
           /\ FilesOf(f.id) = {f.day}

(* C6 as stated: no emission ever observes a logger value that mixes the   *)
(* old and the new logger.                                                 *)
C6_NoTornLogger ==
    \A e \in Emissions : ~e.torn

RotationsOn(d) ==
    Cardinality({i \in DOMAIN replaced :
                    replaced[i].by = "rotateLogDaily" /\ replaced[i].day = d})
InitReplacements ==
    Cardinality({i \in DOMAIN replaced : replaced[i].by = "InitLogger"})

(* C7 as stated: the handle is replaced exactly once by InitLogger and, on *)
(* every local calendar day that begins while the process runs, exactly    *)
(* once by the rotation task: never twice, and once a day is over, not     *)
(* zero times.                                                             *)
C7_ReplacedOncePerDay ==
    /\ rotPc # "off" => InitReplacements = 1
    /\ \A d \in 0..MaxDay :
          /\ RotationsOn(d) <= 1
          /\ (d > LocalDay(StartHour) /\ LocalDay(clock) > d) => RotationsOn(d) = 1

----------------------------------------------------------------------------
(* The query hook alone: a hook is built for a configured level and        *)
(* observes one database call                                              *)

QSelect == <<"S", "E", "L", "E", "C", "T", " ", "1">>
QSelectLower == <<" ", " ", "s", "e", "l", "e", "c", "t", " ", "1">>
QCreateLower == <<"c", "r", "e", "a", "t", "e", " ", "t", "a", "b", "l", "e", " ", "t", " ", "(", "a", " ", "i", "n", "t", ")">>
QAlter == <<"A", "L", "T", "E", "R", " ", "T", "A", "B", "L", "E", " ", "t", " ", "A", "D", "D", " ", "b", " ", "i", "n", "t">>
QDrop == <<"D", "R", "O", "P", " ", "T", "A", "B", "L", "E", " ", "t">>
QUpdate == <<"U", "P", "D", "A", "T", "E", " ", "t", " ", "S", "E", "T", " ", "a", " ", "=", " ", "1">>
QWith == <<"W", "I", "T", "H", " ", "x", " ", "A", "S", " ", "(", "S", "E", "L", "E", "C", "T", " ", "1", ")", " ", "S", "E", "L", "E", "C", "T", " ", "1">>
QSelectQuoted == <<"S", "E", "L", "E", "C", "T", " ", "\"", "i", "d", "\"", " ", " ", "F", "R", "O", "M", " ", "\"", "u", "s", "e", "r", "s", "\"">>

(* SELECT '"' : a string literal holding one double quote *)
QQuoteLiteral == <<"S", "E", "L", "E", "C", "T", " ", "'", "\"", "'">>

(* SELECT "" FROM t : an empty quoted identifier *)
QEmptyQuoted == <<"S", "E", "L", "E", "C", "T", " ", "\"", "\"", " ", "F", "R", "O", "M", " ", "t">>

HookQueries ==
    {QSelect, QSelectLower, QCreateAuth, QCreateLower, QAlter, QDrop, QUpdate,
     QWith, QSelectQuoted, QQuoteLiteral, QEmptyQuoted, QSetSearchPath,
     QCreateLogs, QInsertLogs}

HookLevels ==
    {<<"D", "E", "B", "U", "G">>,
     <<"d", "e", "b", "u", "g">>,
     <<"I", "N", "F", "O">>,
     <<"I", "n", "f", "o">>,
     <<"E", "R", "R", "O", "R">>,
     <<"w", "a", "r", "n">>,
     <<"s", "i", "l", "e", "n", "t">>,
     <<>>}

(* Elapsed times in microseconds, around the threshold of 100 ms *)
HookDurations == {0, FastUs, 99999, 100000, 100500, 101000, SlowUs}

InitHook ==
    /\ InitProcess("idle")
    /\ InitEnv
    /\ zone = 0
    /\ faults = {}
    /\ wr = WriteIdle
    /\ hook \in [pc : {"new"}, cfgLevel : HookLevels, level : {<<>>},
                 query : HookQueries, durUs : HookDurations,
                 failed : BOOLEAN, out : {NoEmit}]

(* db.AddQueryHook(NewDBLogger(cfg.PostgresLogLevel)) *)
HookNew ==
    /\ hook.pc = "new"
    /\ hook' = [hook EXCEPT !.pc = "ready", !.level = NewDBLogger(hook.cfgLevel)]
    /\ UNCHANGED <<mainVars, timeVars, rotVars, logVars, sinkVars, faults, wr, envVars>>

(* AfterQuery of the observed call *)
HookAfterQuery ==
    /\ hook.pc = "ready"
    /\ hook' = [hook EXCEPT !.pc = "done",
                  !.out = AfterQuery(hook.query, hook.durUs, hook.failed, hook.level)]
    /\ UNCHANGED <<mainVars, timeVars, rotVars, logVars, sinkVars, faults, wr, envVars>>

NextHook ==
    \/ HookNew
    \/ HookAfterQuery

SpecHook == InitHook /\ [][NextHook]_vars

----------------------------------------------------------------------------
(* DBWriter.Write alone: one call with a buffer, the insert succeeding or  *)
(* not                                                                     *)

Absent == [t |-> "absent", s |-> "", hi |-> 0, lo |-> 0]

LevelValues == {Absent, NullV, StrV("info"), StrV(""), BoolV(TRUE), NumV(0, 3)}
MessageValues == {Absent, NullV, StrV("API request"), NumV(0, 42)}
ModuleValues == {Absent, StrV("http"), NumV(0, 1)}
TimeValues == {Absent, StrV("2024-01-01T00:00:00Z")}
CountValues == {Absent, NumV(0, 7), NumV(Two23, 0), NumV(Two23, 1), NumV(Two23, 3)}

(* The document of the fields that are present *)
Compact(d) == [k \in {x \in DOMAIN d : d[x] # Absent} |-> d[k]]

WriteDocs ==
    {Compact([level |-> l, message |-> m, module |-> mo, time |-> t, n |-> c]) :
        l \in LevelValues, m \in MessageValues, mo \in ModuleValues,
        t \in TimeValues, c \in CountValues}

WriteBuffers == {Buffer(1, d) : d \in WriteDocs} \cup {Garbage(1)}

InitWrite ==
    /\ InitProcess("idle")
    /\ InitEnv
    /\ zone = 0
    /\ faults = {}
    /\ hook = HookIdle
    /\ wr \in [pc : {"call"}, variant : {"bun", "gorm"}, p : WriteBuffers,
               fails : BOOLEAN, res : {WriteIdle.res}]

(* n, err := w.Write(p), with the row in the table and the line on stderr  *)
Write ==
    /\ wr.pc = "call"
    /\ LET r == IF wr.variant = "gorm"
                THEN DBWriteGorm(wr.p, clock, wr.fails)
                ELSE DBWrite(wr.p, clock, wr.fails)
       IN  /\ wr' = [wr EXCEPT !.pc = "done", !.res = r]
           /\ logs' = AppendIf(r.stored, logs, r.row)
           /\ stderr' = AppendIf(r.stderr # <<>>, stderr, Line("dbwriter", wr.p.id))
    /\ UNCHANGED <<mainVars, timeVars, rotVars, logVars, console, files, emitted,
                   faults, hook, envVars>>

NextWrite == Write

SpecWrite == InitWrite /\ [][NextWrite]_vars

----------------------------------------------------------------------------
(* Properties of DBWriter.Write *)

(* The text of a field of the emitted event: a string as it is, a number   *)
(* by its digits, true or false, and the no-value placeholder for a field  *)
(* that is null or missing                                                 *)
TextOf(doc, k) ==
    IF k \notin DOMAIN doc \/ doc[k].t = "null" THEN "<nil>"
    ELSE IF doc[k].t = "number" THEN ToString(doc[k].hi * Two30 + doc[k].lo)
    ELSE doc[k].s

(* C8: the level and message of a persisted row are the text of the        *)
(* emitted event's level and message; timestamp, level and message are     *)
(* never null, a missing level or message being stored as the placeholder  *)
(* text.                                                                   *)
C8_LevelMessageCoerced ==
    \A i \in DOMAIN logs :
        /\ logs[i].ev = wr.p.id
        /\ logs[i].level = TextOf(wr.p.doc, "level")
        /\ logs[i].message = TextOf(wr.p.doc, "message")
        /\ logs[i].timestamp # NoTime
        /\ ("level" \notin DOMAIN wr.p.doc => logs[i].level = "<nil>")
        /\ ("message" \notin DOMAIN wr.p.doc => logs[i].message = "<nil>")

C8_Witness ==
    /\ wr.pc = "done"
    /\ Len(logs) = 1
    /\ "message" \notin DOMAIN wr.p.doc
    /\ logs[1].message = "<nil>"
    /\ logs[1].level = "info"

(* C9 as stated: the data column of every persisted row parses to the      *)
(* emitted event's fields without time, each with its original value.      *)
C9_DataRoundTrips ==
    \A i \in DOMAIN logs : logs[i].data = Without(wr.p.doc, "time")

----------------------------------------------------------------------------
(* Properties of the query hook *)

(* C10 as stated: for a call that did not fail and does not target the     *)
(* logs table, the hook emits if and only if the verbosity is debug, or it *)
(* is info and the statement starts with CREATE, ALTER or DROP or took     *)
(* longer than 100 ms.                                                     *)
C10_EmitsIffDebugOrInfoSchemaOrSlow ==
    (hook.pc = "done" /\ ~hook.failed /\ ~Contains(hook.query, LogsToken)) =>
        (hook.out.emit <=>
            \/ hook.level = LogLevelDebug
            \/ /\ hook.level = LogLevelInfo
               /\ \/ getOperationType(hook.query) \in {"CREATE", "ALTER", "DROP"}
                  \/ hook.durUs > SlowQueryMs * 1000)

----------------------------------------------------------------------------
(* Properties of the rotation and of the startup *)

(* 00:00 local time of the first calendar day after the day of now *)
NextMidnight(now) == MidnightOf(LocalDay(now) + 1)

(* A step of rotateLogDaily in which getDailyLogFile failed *)
RotationFailed == rotPc = "sleep" /\ rotPc' = "sleep" /\ tries' # tries

(* C12 as stated: when opening the daily file fails, the rotation task     *)
(* emits one error event through the current logger, leaves the handle as  *)
(* it is, does not end the process, and tries again at the next local      *)
(* midnight.                                                               *)
C12_FailedRotationRetriesAtMidnight ==
    [][RotationFailed =>
          /\ Len(emitted') = Len(emitted) + 1
          /\ emitted'[Len(emitted')].src = "rotate"
          /\ emitted'[Len(emitted')].via = Logger.w
          /\ Logger' = Logger
          /\ replaced' = replaced
          /\ pc' = pc
          /\ wake' = NextMidnight(clock)]_vars

StartupSteps ==
    <<"config", "ping", "schema", "searchpath", "migrate",
      "logstable", "index_timestamp", "index_module", "logfile">>

(* C13: the server is started, and serves, only after the configuration,   *)
(* the ping, the schema, the migration, the logs table with its indexes    *)
(* and the log file have all succeeded, in this order; once one of them    *)
(* failed the process is aborted and nothing is ever served.               *)
C13_ServesOnlyAfterStartup ==
    /\ pc \in {"started", "serverlog", "listen", "serving", "exit"} =>
          startup = [i \in 1..Len(StartupSteps) |->
                        [step |-> StartupSteps[i], ok |-> TRUE]]
    /\ (\E i \in DOMAIN startup : ~startup[i].ok) =>
          /\ pc = "panic"
          /\ requests = 0
          /\ handler = "idle"
    /\ (requests > 0 \/ handler # "idle") => pc = "serving"

C13_Witness ==
    /\ pc = "serving"
    /\ requests > 0
    /\ Len(startup) = Len(StartupSteps)
    /\ rotPc # "off"

(* C14: whatever rotations happened since a logger instance was obtained,  *)
(* a write through it is appended to the file that instance was built      *)
(* with: no rotation closes a file opened earlier.                         *)
C14_OldInstanceKeepsItsFile ==
    \A e \in FanOut :
        "file" \notin e.failing =>
            /\ FilesOf(e.id) = {loggers[e.via].date}
            /\ OnFile(loggers[e.via].date, e.id) = 1

C14_Witness ==
    \E e \in FanOut :
        /\ e.via # e.current
        /\ e.current = Len(loggers)
        /\ loggers[e.via].date # loggers[e.current].date
        /\ FilesOf(e.id) = {loggers[e.via].date}

----------------------------------------------------------------------------
(* The startup alone, for every host, environment and .env file *)

Hostnames == {"moneybots-app", "dev-box"}
EnvValues == {"", "production", "development"}

InitStartup ==
    /\ InitProcess("load")
    /\ zone = 0
    /\ faults = {}
    /\ hook = HookIdle
    /\ wr = WriteIdle
    /\ hostname \in Hostnames
    /\ dotenv \in [EnvKeys -> EnvValues]
    /\ env \in [EnvKeys -> EnvValues]

NextStartup ==
    \/ LoadConfig
    \/ Connect
    \/ StartupExec
    \/ InitLogger

SpecStartup == InitStartup /\ [][NextStartup]_vars

(* C15 as stated: when the deployment environment the config loader        *)
(* established is production, every log file opened is under               *)
(* /var/log/moneybotsapi, and otherwise under _logs.                       *)
C15_DirectoryFollowsEnvironment ==
    \A g \in DOMAIN loggers :
        loggers[g].dir = (IF cfg.ServerEnv = "production"
                          THEN "/var/log/moneybotsapi" ELSE "_logs")

(* A step in which rotateLogDaily begins an iteration: it computes its     *)
(* sleep and suspends                                                      *)
RotationSleeps == rotPc' = "sleep" /\ (rotPc # "sleep" \/ tries' # tries)

(* C16 as stated: in every iteration of the rotation loop, whatever the    *)
(* local time and the length of the day, the sleep is strictly positive    *)
(* and the wake instant is 00:00 local of the first calendar day after the *)
(* current one, so no day is rotated twice and none is skipped.            *)
C16_SleepsUntilNextMidnight ==
    [][RotationSleeps =>
          /\ SleepDuration(clock) > 0
          /\ wake' = NextMidnight(clock)]_vars

----------------------------------------------------------------------------
(* Properties of the cleaned query and of the parse failure *)

(* The text s without its double quotes, its runs of white space made one  *)
(* space and none left at either end                                       *)
Squeezed(s) ==
    Join(Fields(SelectSeq(s, LAMBDA ch : ch # "\"")), <<" ">>)

(* C17 as stated: for every statement text, the cleaned query the hook     *)
(* logs has no double quote, no run of white space and no white space at   *)
(* either end, and is otherwise the original text.                         *)
C17_CleanQueryHasNoQuotes ==
    (hook.pc = "done" /\ hook.out.emit /\ "query" \in DOMAIN hook.out.doc) =>
        hook.out.doc["query"] = StrV(Flatten(Squeezed(hook.query)))

(* C18: when the buffer handed to DBWriter.Write does not parse, Write     *)
(* returns zero bytes and the parsing error at once: no insert is          *)
(* attempted, no row is stored, nothing is printed to standard error, and  *)
(* the call returns to its caller.                                         *)
C18_ParseFailureReturnsAtOnce ==
    (wr.pc = "done" /\ ~wr.p.valid) =>
        /\ wr.res.n = 0
        /\ wr.res.err = "parse"
        /\ ~wr.res.attempted
        /\ ~wr.res.stored
        /\ wr.res.stderr = <<>>
        /\ logs = <<>>
        /\ stderr = <<>>

C18_Witness ==
    /\ wr.pc = "done"
    /\ wr.p = Garbage(1)
    /\ wr.variant = "gorm"
    /\ wr.fails
    /\ wr.res.err = "parse"
    /\ logs = <<>>

====
